---- MODULE Spec2Model ----
(***************************************************************************)
(* The package builder of build/package.py: main_func drives, for one      *)
(* (distro, arch) request, the registration of the package classes         *)
(* (construction and proto-area check) and then, per registered package,   *)
(* collect_contents, build_package and the optional lint call.             *)
(*                                                                         *)
(* The file system, the clock and the external tools (dpkg-deb,            *)
(* ipkg-build, lintian, run through fakeroot) are the environment: their   *)
(* outcomes are chosen nondeterministically.                               *)
(***************************************************************************)
EXTENDS Integers, Sequences, FiniteSets, TLC

VARIABLES
    argv_distro,   \* --distro as given on the command line
    opts_distro,   \* opts.distro (rewritten by the raspbian shim)
    opts_arch,     \* opts.arch
    opts_lint,     \* opts.lint
    version,       \* "0.0.<calver>-1", computed once per invocation
    protoFiles,    \* paths that exist below <proto>/appliance
    protoLinks,    \* symbolic links below the proto subtrees
    hostFiles,     \* lifecycle-script files that exist below build/
    fs,            \* paths that exist below the current directory
    content,       \* contents of the control files in fs
    links,         \* targets of the symbolic links in fs
    execs,         \* the files in fs whose mode is 0o755
    pkgs,          \* main_func's list of registered package objects
    pc,            \* position of main_func
    i,             \* index of the registration loop in packages
    j,             \* index of the build loop in pkgs
    rc,            \* exit status of the process (meaningful once pc = "done")
    exc,           \* the uncaught exception that ended the process, or "none"
    trace          \* log records and external calls, in program order

vars == <<argv_distro, opts_distro, opts_arch, opts_lint, version, protoFiles,
          protoLinks, hostFiles, fs, content, links, execs, pkgs, pc, i, j,
          rc, exc, trace>>

----------------------------------------------------------------------------
(* Sequence helpers.                                                       *)

InSeq(x, s) == \E k \in DOMAIN s : s[k] = x

Range(s) == {s[k] : k \in DOMAIN s}

RECURSIVE Join(_, _)
\* sep.join(s)
Join(sep, s) ==
    IF s = <<>> THEN ""
    ELSE IF Len(s) = 1 THEN s[1]
    ELSE s[1] \o sep \o Join(sep, Tail(s))

\* os.path.join(a, b) for relative b
PathJoin(a, b) == a \o "/" \o b

----------------------------------------------------------------------------
(* Module-level data of package.py.                                        *)

ARCH_MAPS ==
    [armhf |-> [ipk |-> "arm_cortex-a7_neon-vfpv4"],
     amd64 |-> [ipk |-> "amd64"]]

\* A package class: its class attributes.  CloudPackage declares no
\* ipk_depends attribute.
CloudPackage ==
    [cls |-> "CloudPackage",
     name |-> "bg-cloud",
     arches |-> <<"amd64">>,
     distros |-> <<"archive", "debian">>,
     description |-> "Cloud components.",
     maintainer |-> "Brightgate Software <contact_us@brightgate.com>",
     deb_depends |-> <<"libc6">>,
     proto_sub |-> "cloud"]

AppliancePackage ==
    [cls |-> "AppliancePackage",
     name |-> "bg-appliance",
     arches |-> <<"armhf", "amd64">>,
     distros |-> <<"archive", "debian", "openwrt">>,
     description |-> "Appliance components.",
     maintainer |-> "Brightgate Software <contact_us@brightgate.com>",
     deb_depends |-> <<"bridge-utils", "chrony", "dhcpcd5", "iproute2",
                       "iptables", "iptables-persistent", "iw", "libc6",
                       "libpcap-dev", "netfilter-persistent", "nmap",
                       "procps", "vlan", "bg-hostapd">>,
     ipk_depends |-> <<"libgcc", "libpcap", "libsodium", "uclibcxx",
                       "chrony", "iw-full", "logrotate", "nmap-ssl",
                       "rsyslog", "bg-hostapd">>,
     proto_sub |-> "appliance"]

\* main_func: packages = [CloudPackage, AppliancePackage]
packages == <<CloudPackage, AppliancePackage>>

\* The methods class Package and its subclasses define.
PackageMethods ==
    {"set_distro", "rm_work_dir", "mk_work_dir", "copy_tree", "emit_metadata",
     "collect_contents", "build_package", "deb_run_lint", "check_proto"}

----------------------------------------------------------------------------
(* valid_distro_arch                                                       *)

\* Variant: a name that is none of the three distributions is let through.
valid_distro_arch_Permissive(distro, arch) ==
    IF distro = "debian" /\ arch \in {"armhf", "amd64"} THEN TRUE
    ELSE IF distro = "openwrt" /\ arch = "armhf" THEN TRUE
    ELSE IF distro = "archive" THEN TRUE
    ELSE distro \notin {"debian", "openwrt"}

\* Variant: openwrt is let through for amd64 as well.
valid_distro_arch_OpenwrtAmd64(distro, arch) ==
    IF distro = "debian" /\ arch \in {"armhf", "amd64"} THEN TRUE
    ELSE IF distro = "openwrt" /\ arch \in {"armhf", "amd64"} THEN TRUE
    ELSE IF distro = "archive" THEN TRUE
    ELSE FALSE

valid_distro_arch(distro, arch) ==
    IF distro = "debian" /\ arch \in {"armhf", "amd64"} THEN TRUE
    ELSE IF distro = "openwrt" /\ arch = "armhf" THEN TRUE
    ELSE IF distro = "archive" THEN TRUE
    ELSE FALSE

\* Variant: no shim.
NormalizeDistro_Identity(distro) == distro

\* main_func's shim: raspbian is rewritten to debian.
NormalizeDistro(distro) ==
    IF distro = "raspbian" THEN "debian" ELSE distro

----------------------------------------------------------------------------
(* Package.__init__ and Package.set_distro.  The result is                 *)
(* [exc, msg, obj]: exc = "none" and the constructed object, or the        *)
(* exception raised.                                                       *)

NoObj == [name |-> "none"]

Raise(e, m) == [exc |-> e, msg |-> m, obj |-> NoObj]

Return(o) == [exc |-> "none", msg |-> "", obj |-> o]

\* Variant: "%s_%s" % (b, c), the first component is left out.
Fmt3_NoName(a, b, c) == b \o "_" \o c

\* "%s_%s_%s" % (a, b, c)
Fmt3(a, b, c) == a \o "_" \o b \o "_" \o c

\* Variant: the openwrt branch keeps the logical architecture as pkg_arch.
set_distro_RawArch(cls, self, distro) ==
    IF distro = "debian" THEN
        IF "deb_depends" \notin DOMAIN cls
        THEN Raise("AttributeError", "deb_depends")
        ELSE LET pkg_arch == self.arch
                 work_dir == Fmt3(self.name, self.version, pkg_arch)
             IN  Return([self EXCEPT
                     !.distro = distro,
                     !.package_name = self.deb_package_name,
                     !.pkg_arch = pkg_arch,
                     !.work_dir = work_dir,
                     !.control_dir = PathJoin(work_dir, "DEBIAN"),
                     !.depends = cls.deb_depends,
                     !.template = "deb_template"])
    ELSE IF distro = "openwrt" THEN
        IF "ipk_depends" \notin DOMAIN cls
        THEN Raise("AttributeError", "ipk_depends")
        ELSE LET pkg_arch == self.arch
                 work_dir == Fmt3(self.name, self.version, pkg_arch)
             IN  Return([self EXCEPT
                     !.distro = distro,
                     !.package_name = self.ipk_package_name,
                     !.pkg_arch = pkg_arch,
                     !.work_dir = work_dir,
                     !.control_dir = PathJoin(work_dir, "CONTROL"),
                     !.depends = cls.ipk_depends,
                     !.template = "ipk_template"])
    ELSE IF distro = "archive" THEN
        Raise("RuntimeError", "archive not yet implemented")
    ELSE
        Raise("RuntimeError", "unknown distro")

set_distro(cls, self, distro) ==
    IF distro = "debian" THEN
        IF "deb_depends" \notin DOMAIN cls
        THEN Raise("AttributeError", "deb_depends")
        ELSE LET pkg_arch == self.arch
                 work_dir == Fmt3(self.name, self.version, pkg_arch)
             IN  Return([self EXCEPT
                     !.distro = distro,
                     !.package_name = self.deb_package_name,
                     !.pkg_arch = pkg_arch,
                     !.work_dir = work_dir,
                     !.control_dir = PathJoin(work_dir, "DEBIAN"),
                     !.depends = cls.deb_depends,
                     !.template = "deb_template"])
    ELSE IF distro = "openwrt" THEN
        IF "ipk_depends" \notin DOMAIN cls
        THEN Raise("AttributeError", "ipk_depends")
        ELSE LET pkg_arch == ARCH_MAPS[self.arch]["ipk"]
                 work_dir == Fmt3(self.name, self.version, pkg_arch)
             IN  Return([self EXCEPT
                     !.distro = distro,
                     !.package_name = self.ipk_package_name,
                     !.pkg_arch = pkg_arch,
                     !.work_dir = work_dir,
                     !.control_dir = PathJoin(work_dir, "CONTROL"),
                     !.depends = cls.ipk_depends,
                     !.template = "ipk_template"])
    ELSE IF distro = "archive" THEN
        Raise("RuntimeError", "archive not yet implemented")
    ELSE
        Raise("RuntimeError", "unknown distro")

\* The object __init__ hands to set_distro.
NewSelf(cls, distro, arch, ver) ==
    [name |-> cls.name, description |-> cls.description,
     maintainer |-> cls.maintainer,
     distro |-> distro, arch |-> arch, version |-> ver,
     deb_package_name |-> Fmt3(cls.name, ver, arch) \o ".deb",
     ipk_package_name |->
         Fmt3(cls.name, ver, ARCH_MAPS[arch]["ipk"]) \o ".ipk",
     package_name |-> "", pkg_arch |-> "", work_dir |-> "",
     control_dir |-> "", depends |-> <<>>, template |-> "",
     proto_sub |-> cls.proto_sub]

\* Variant: no test of arch against the class's arches.
Package_init_NoArchCheck(cls, distro, arch, ver) ==
    IF arch \notin DOMAIN ARCH_MAPS THEN
        Raise("KeyError", arch)
    ELSE
        set_distro(cls, NewSelf(cls, distro, arch, ver), distro)

Package_init(cls, distro, arch, ver) ==
    IF ~InSeq(arch, cls.arches) THEN
        Raise("WrongArchException", arch \o " not a supported architecture")
    ELSE IF arch \notin DOMAIN ARCH_MAPS THEN
        Raise("KeyError", arch)
    ELSE
        set_distro(cls, NewSelf(cls, distro, arch, ver), distro)

----------------------------------------------------------------------------
(* check_proto                                                             *)

\* AppliancePackage.check_proto's list: the two literals have no comma
\* between them, so Python concatenates them into one element.
ap_props ==
    << "opt/com.brightgate/etc/ap_props.json" \o "data/configd/ap_props.json" >>

\* TRUE when check_proto raises.  CloudPackage.check_proto is `pass`.
check_proto(cls, files) ==
    IF cls.cls = "AppliancePackage"
    THEN \E k \in DOMAIN ap_props : ap_props[k] \in files
    ELSE FALSE

----------------------------------------------------------------------------
(* Inputs.                                                                 *)

\* Values of --distro: the three known names, the alias, an unknown name.
Distros == {"debian", "raspbian", "openwrt", "archive", "fedora"}

\* Values of --arch: the two mapped names and an unmapped one.
Arches == {"amd64", "armhf", "arm"}

\* Values of time.strftime("%y%m%d%H%M").
Calvers == {"1803141592", "2611031510"}

\* version = "0.0.%s-1" % calver
VersionOf(calver) == "0.0." \o calver \o "-1"

\* The config-store files of an initialized appliance, and the path
\* check_proto tests.
ConfigStoreFiles ==
    {"opt/com.brightgate/etc/ap_props.json", "data/configd/ap_props.json"}

ProtoPaths == ConfigStoreFiles \cup Range(ap_props)

\* Symbolic links the proto subtree of a package may hold: an absolute link
\* whose target is missing on the build host, and a relative link to a
\* sibling file.
ProtoLinkChoices ==
    {[path |-> "etc/localtime", target |-> "/usr/share/zoneinfo/UTC",
      dangling |-> TRUE],
     [path |-> "lib/libbg.so", target |-> "libbg.so.1", dangling |-> FALSE]}

\* emit_metadata: for f in ["prerm", "postinst", "conffiles"]
Hooks == {"prerm", "postinst", "conffiles"}

\* src = "build/debian-deb/%s-%s" % (self.name, f), and the openwrt one
HookSource(distro, name, f) ==
    IF distro = "debian"
    THEN "build/debian-deb/" \o name \o "-" \o f
    ELSE "build/openwrt-ipk/" \o name \o "-" \o f

\* The script files of the hooks h that exist on a host, for every package,
\* in the script directories of the distros ds.
HookSources(ds, h) ==
    {HookSource(d, cls.name, f) :
        d \in ds, cls \in Range(packages), f \in h}

\* The work directories a run of the same request in the same minute uses:
\* what an earlier, failed run may have left behind.
StaleDirs(distro, arch, ver) ==
    {r.obj.work_dir :
        r \in {q \in {Package_init(cls, NormalizeDistro(distro), arch, ver) :
                       cls \in Range(packages)} : q.exc = "none"}}

Event(op, pkg) == [op |-> op, pkg |-> pkg]

Init ==
    /\ argv_distro \in Distros
    /\ opts_distro = argv_distro
    /\ opts_arch \in Arches
    /\ opts_lint \in BOOLEAN
    /\ version \in {VersionOf(c) : c \in Calvers}
    /\ protoFiles \in SUBSET ProtoPaths
    /\ protoLinks \in SUBSET ProtoLinkChoices
    /\ hostFiles \in {HookSources({"debian", "openwrt"}, h) :
                        h \in SUBSET Hooks}
    /\ fs \in SUBSET StaleDirs(argv_distro, opts_arch, version)
    /\ content = <<>>
    /\ links = <<>>
    /\ execs = {}
    /\ pkgs = <<>>
    /\ pc = "normalize"
    /\ i = 1
    /\ j = 1
    /\ rc = 0
    /\ exc = "none"
    /\ trace = <<>>

----------------------------------------------------------------------------
(* The work area and the control file.                                     *)

\* Everything the builder can put below a work directory.
Tree(work_dir) ==
    {work_dir}
    \cup {PathJoin(work_dir, d) : d \in {"DEBIAN", "CONTROL"}}
    \cup {PathJoin(PathJoin(work_dir, d), f) :
            d \in {"DEBIAN", "CONTROL"},
            f \in {"control", "prerm", "postinst", "conffiles"}}
    \cup {PathJoin(work_dir, l.path) : l \in ProtoLinkChoices}

\* dict restricted to the paths that still exist
Restrict(c, paths) == [p \in (DOMAIN c) \cap paths |-> c[p]]

\* Variant of the templates without the `% if pkg_depends:` guard: the
\* Depends line is always written.
Render_AlwaysDepends(self) ==
    LET depends == Join(",", self.depends)
        dep == << <<"Depends", depends>> >>
    IN  IF self.template = "deb_template" THEN
            << <<"Package", self.name>>, <<"Version", self.version>>,
               <<"Section", "opt">>, <<"Priority", "optional">>,
               <<"Architecture", self.pkg_arch>> >>
            \o dep \o
            << <<"Maintainer", self.maintainer>>,
               <<"Description", self.description>> >>
        ELSE
            << <<"Package", self.name>>, <<"Version", self.version>>,
               <<"Section", "opt">>,
               <<"Architecture", self.pkg_arch>> >>
            \o dep \o
            << <<"Maintainer", self.maintainer>>,
               <<"Description", self.description>> >>

\* deb_template / ipk_template rendered: the lines of the control file as
\* <<field, value>>; the Depends line only when pkg_depends is non-empty.
Render(self) ==
    LET depends == Join(",", self.depends)
        dep == IF depends # "" THEN << <<"Depends", depends>> >> ELSE <<>>
    IN  IF self.template = "deb_template" THEN
            << <<"Package", self.name>>, <<"Version", self.version>>,
               <<"Section", "opt">>, <<"Priority", "optional">>,
               <<"Architecture", self.pkg_arch>> >>
            \o dep \o
            << <<"Maintainer", self.maintainer>>,
               <<"Description", self.description>> >>
        ELSE
            << <<"Package", self.name>>, <<"Version", self.version>>,
               <<"Section", "opt">>,
               <<"Architecture", self.pkg_arch>> >>
            \o dep \o
            << <<"Maintainer", self.maintainer>>,
               <<"Description", self.description>> >>

HasField(ctl, f) == \E k \in DOMAIN ctl : ctl[k][1] = f

Field(ctl, f) == ctl[CHOOSE k \in DOMAIN ctl : ctl[k][1] = f][2]

ControlFile(self) == PathJoin(self.control_dir, "control")

\* dpkg-deb --build <dir> writes <dir>.deb
DpkgDebOutput(self) == self.work_dir \o ".deb"

\* ipkg-build <dir> writes <Package>_<Version>_<Architecture>.ipk, the
\* fields read from <dir>/CONTROL/control
IpkgBuildOutput(ctl) ==
    Fmt3(Field(ctl, "Package"), Field(ctl, "Version"),
         Field(ctl, "Architecture")) \o ".ipk"

----------------------------------------------------------------------------
(* main_func                                                               *)

\* sys.exit(code), or the end of main_func (code 0)
Exit(code) ==
    /\ pc' = "done"
    /\ rc' = code
    /\ exc' = "none"

\* an exception nothing catches: traceback, exit status 1
Crash(e) ==
    /\ pc' = "done"
    /\ rc' = 1
    /\ exc' = e

\* The registration loop moves on from class ii with the list n of
\* registered packages: the next class, the first job, or the end.
NextClass(ii, n) ==
    /\ i' = ii + 1
    /\ IF ii + 1 <= Len(packages)
       THEN UNCHANGED <<pc, rc, exc>>
       ELSE IF Len(n) >= 1
            THEN pc' = "collect" /\ UNCHANGED <<rc, exc>>
            ELSE Exit(0)

\* Variant: the loop does not move to the next job, the body runs again
\* for the same one.
Advance_Repeat(jj, n) ==
    /\ pc' = "collect"
    /\ j' = jj
    /\ UNCHANGED <<rc, exc>>

\* Leaving the body of `for p in pkgs` after job jj: the next job, or the
\* end of main_func.
Advance(jj, n) ==
    IF jj + 1 <= n
    THEN /\ pc' = "collect"
         /\ j' = jj + 1
         /\ UNCHANGED <<rc, exc>>
    ELSE /\ Exit(0)
         /\ j' = jj + 1

\* if opts.distro == "raspbian": opts.distro = "debian"
Normalize ==
    /\ pc = "normalize"
    /\ opts_distro' = NormalizeDistro(opts_distro)
    /\ pc' = "validate"
    /\ UNCHANGED <<argv_distro, opts_arch, opts_lint, version, protoFiles,
                   protoLinks, hostFiles, fs, content, links, execs, pkgs, i,
                   j, rc, exc, trace>>

\* if not valid_distro_arch(...): log, sys.exit(0)
Validate ==
    /\ pc = "validate"
    /\ IF valid_distro_arch(opts_distro, opts_arch)
       THEN /\ pc' = "register"
            /\ UNCHANGED <<rc, exc, trace>>
       ELSE /\ Exit(0)
            /\ trace' = Append(trace, Event("log.info.no_output", "none"))
    /\ UNCHANGED <<argv_distro, opts_distro, opts_arch, opts_lint, version,
                   protoFiles, protoLinks, hostFiles, fs, content, links,
                   execs, pkgs, i, j>>

\* Variant: the job is put in front of the list.
AppendJob_Front(n, p) == <<p>> \o n

\* pkgs.append(p)
AppendJob(n, p) == Append(n, p)

\* A variant of the handler below that logs and does not exit: the loop
\* goes on to pkgs.append(p).
FailedProtoCheck_NoExit(p, t) ==
    /\ trace' = Append(t, Event("log.fatal.proto_check", p.name))
    /\ pkgs' = AppendJob(pkgs, p)
    /\ NextClass(i, AppendJob(pkgs, p))

\* except Exception (around check_proto): logging.fatal, sys.exit(1).
\* t is the trace up to the check of the constructed package p.
FailedProtoCheck(p, t) ==
    /\ trace' = Append(t, Event("log.fatal.proto_check", p.name))
    /\ Exit(1)
    /\ UNCHANGED <<pkgs, i>>

\* One iteration of `for pclass in packages`: construct, check_proto,
\* append.  After the last class the build loop begins.
Register ==
    /\ pc = "register"
    /\ i <= Len(packages)
    /\ LET cls == packages[i]
           r == Package_init(cls, opts_distro, opts_arch, version)
           dbg == Append(trace, Event("log.debug.init", cls.name))
       IN  IF r.exc = "WrongArchException" THEN
               /\ trace' = Append(dbg, Event("log.info.skipping", cls.name))
               /\ NextClass(i, pkgs)
               /\ UNCHANGED pkgs
           ELSE IF r.exc # "none" THEN
               /\ trace' = dbg
               /\ Crash(r.exc)
               /\ UNCHANGED <<pkgs, i>>
           ELSE IF check_proto(cls, protoFiles) THEN
               FailedProtoCheck(r.obj,
                   Append(dbg, Event("log.info.pre_build_check", cls.name)))
           ELSE
               /\ trace' = Append(dbg,
                               Event("log.info.pre_build_check", cls.name))
               /\ pkgs' = AppendJob(pkgs, r.obj)
               /\ NextClass(i, AppendJob(pkgs, r.obj))
    /\ UNCHANGED <<argv_distro, opts_distro, opts_arch, opts_lint, version,
                   protoFiles, protoLinks, hostFiles, fs, content, links,
                   execs, j>>

\* rm_work_dir: the file system after it and what it logged.  ok is whether
\* shutil.rmtree succeeds when it is called.
rm_work_dir(self, files, ok) ==
    IF self.work_dir \notin files THEN
        [fs |-> files, ev |-> <<>>]
    ELSE IF ok THEN
        [fs |-> files \ Tree(self.work_dir),
         ev |-> <<Event("call.rmtree", self.name)>>]
    ELSE
        [fs |-> files,
         ev |-> <<Event("call.rmtree", self.name),
                  Event("log.warning.rmtree", self.name)>>]

\* Variant: shutil.copytree(proto_dir, work_dir), as in deb-pkg.py.  Links
\* are followed: a link to an existing file is copied as a regular file,
\* and a dangling link makes copytree raise shutil.Error at its end.
copy_tree_Dereference(self, files, lnk, plinks) ==
    IF self.work_dir \in files THEN
        [exc |-> "FileExistsError", fs |-> files, links |-> lnk]
    ELSE
        LET made == {PathJoin(self.work_dir, l.path) :
                        l \in {q \in plinks : ~q.dangling}}
        IN  [exc |-> IF \E l \in plinks : l.dangling
                     THEN "shutil.Error" ELSE "none",
             fs |-> files \cup {self.work_dir} \cup made,
             links |-> lnk]

\* copy_tree: shutil.copytree(proto_dir, work_dir, symlinks=True) on the
\* files `files` with link targets lnk; plinks are the links of proto_dir.
copy_tree(self, files, lnk, plinks) ==
    IF self.work_dir \in files THEN
        \* os.makedirs(dst) inside copytree: the destination exists
        [exc |-> "FileExistsError", fs |-> files, links |-> lnk]
    ELSE
        LET made == {PathJoin(self.work_dir, l.path) : l \in plinks}
            target(f) ==
                (CHOOSE l \in plinks : PathJoin(self.work_dir, l.path) = f)
                    .target
        IN  [exc |-> "none",
             fs |-> files \cup {self.work_dir} \cup made,
             links |-> [f \in DOMAIN lnk \cup made |->
                          IF f \in made THEN target(f) ELSE lnk[f]]]

\* mk_work_dir: os.makedirs(control_dir); a failure is logged and swallowed.
mk_work_dir(self, files, mkFails) ==
    IF mkFails
    THEN [fs |-> files,
          ev |-> <<Event("call.makedirs", self.name),
                   Event("log.warning.makedirs", self.name)>>]
    ELSE [fs |-> files \cup {self.control_dir},
          ev |-> <<Event("call.makedirs", self.name)>>]

\* The lifecycle scripts emit_metadata copies: those of Hooks whose source
\* exists among the host files.
HooksPresent(self, host) ==
    IF self.distro \in {"debian", "openwrt"}
    THEN {f \in Hooks : HookSource(self.distro, self.name, f) \in host}
    ELSE {}

\* Variant: the except clause logs the render error and raises it again.
emit_metadata_Reraise(self, files, cont, ex, host, renderFails) ==
    IF self.control_dir \notin files THEN
        \* open(): the control directory does not exist
        [exc |-> "FileNotFoundError", fs |-> files, content |-> cont,
         execs |-> ex, ev |-> <<Event("call.open_control", self.name)>>]
    ELSE
        LET text == IF renderFails THEN <<>> ELSE Render(self)
            copied == {PathJoin(self.control_dir, f) :
                          f \in HooksPresent(self, host)}
            chmod == {PathJoin(self.control_dir, f) :
                          f \in HooksPresent(self, host) \ {"conffiles"}}
        IN  [exc |-> IF renderFails THEN "TemplateError" ELSE "none",
             fs |-> files \cup {ControlFile(self)} \cup copied,
             content |-> [f \in DOMAIN cont \cup {ControlFile(self)} |->
                            IF f = ControlFile(self) THEN text ELSE cont[f]],
             execs |-> (ex \ copied) \cup chmod,
             ev |-> IF renderFails
                    THEN <<Event("call.open_control", self.name),
                           Event("log.error.template", self.name)>>
                    ELSE <<Event("call.open_control", self.name)>>]

\* Variant: os.chmod(dst, 0o755) for every copied script.
emit_metadata_ChmodAll(self, files, cont, ex, host, renderFails) ==
    IF self.control_dir \notin files THEN
        \* open(): the control directory does not exist
        [exc |-> "FileNotFoundError", fs |-> files, content |-> cont,
         execs |-> ex, ev |-> <<Event("call.open_control", self.name)>>]
    ELSE
        LET text == IF renderFails THEN <<>> ELSE Render(self)
            copied == {PathJoin(self.control_dir, f) :
                          f \in HooksPresent(self, host)}
            chmod == {PathJoin(self.control_dir, f) :
                          f \in HooksPresent(self, host)}
        IN  [exc |-> "none",
             fs |-> files \cup {ControlFile(self)} \cup copied,
             content |-> [f \in DOMAIN cont \cup {ControlFile(self)} |->
                            IF f = ControlFile(self) THEN text ELSE cont[f]],
             execs |-> (ex \ copied) \cup chmod,
             ev |-> IF renderFails
                    THEN <<Event("call.open_control", self.name),
                           Event("log.error.template", self.name)>>
                    ELSE <<Event("call.open_control", self.name)>>]

\* emit_metadata on the files `files` with control-file contents cont and
\* executable files ex: open the control file, render into it (a render
\* error is logged and swallowed), copy the scripts, chmod all but conffiles.
emit_metadata(self, files, cont, ex, host, renderFails) ==
    IF self.control_dir \notin files THEN
        \* open(): the control directory does not exist
        [exc |-> "FileNotFoundError", fs |-> files, content |-> cont,
         execs |-> ex, ev |-> <<Event("call.open_control", self.name)>>]
    ELSE
        LET text == IF renderFails THEN <<>> ELSE Render(self)
            copied == {PathJoin(self.control_dir, f) :
                          f \in HooksPresent(self, host)}
            chmod == {PathJoin(self.control_dir, f) :
                          f \in HooksPresent(self, host) \ {"conffiles"}}
        IN  [exc |-> "none",
             fs |-> files \cup {ControlFile(self)} \cup copied,
             content |-> [f \in DOMAIN cont \cup {ControlFile(self)} |->
                            IF f = ControlFile(self) THEN text ELSE cont[f]],
             execs |-> (ex \ copied) \cup chmod,
             ev |-> IF renderFails
                    THEN <<Event("call.open_control", self.name),
                           Event("log.error.template", self.name)>>
                    ELSE <<Event("call.open_control", self.name)>>]

\* p.collect_contents(): rm_work_dir, copy_tree, mk_work_dir, emit_metadata
CollectContents ==
    /\ pc = "collect"
    /\ j <= Len(pkgs)
    /\ \E rmFails \in BOOLEAN, mkFails \in BOOLEAN, renderFails \in BOOLEAN :
        LET p == pkgs[j]
            t0 == Append(trace, Event("log.info.begin", p.name))
            rm == rm_work_dir(p, fs, ~rmFails)
            t1 == t0 \o rm.ev
            cp == copy_tree(p, rm.fs, Restrict(links, rm.fs), protoLinks)
            t2 == Append(t1, Event("call.copytree", p.name))
            mk == mk_work_dir(p, cp.fs, mkFails)
            t3 == t2 \o mk.ev
            em == emit_metadata(p, mk.fs, Restrict(content, mk.fs),
                                execs \cap mk.fs, hostFiles, renderFails)
            t4 == t3 \o em.ev
        IN  IF cp.exc # "none" THEN
                /\ trace' = t2
                /\ fs' = cp.fs
                /\ content' = Restrict(content, cp.fs)
                /\ links' = cp.links
                /\ execs' = execs \cap cp.fs
                /\ Crash(cp.exc)
            ELSE
                /\ trace' = t4
                /\ fs' = em.fs
                /\ content' = em.content
                /\ links' = cp.links
                /\ execs' = em.execs
                /\ IF em.exc # "none"
                   THEN Crash(em.exc)
                   ELSE pc' = "build" /\ UNCHANGED <<rc, exc>>
    /\ UNCHANGED <<argv_distro, opts_distro, opts_arch, opts_lint, version,
                   protoFiles, protoLinks, hostFiles, pkgs, i, j>>

\* The file the build tool leaves in the current directory when it succeeds.
ToolOutput(self, ctl) ==
    IF self.distro = "debian" THEN DpkgDebOutput(self)
    ELSE IpkgBuildOutput(ctl)

\* Whether the build tool can succeed at all: ipkg-build names its output
\* after fields of the control file.
ToolCanSucceed(self, ctl) ==
    self.distro = "debian"
    \/ (HasField(ctl, "Package") /\ HasField(ctl, "Version")
        /\ HasField(ctl, "Architecture"))

\* p.build_package(...): the build tool, then rm_work_dir; then
\* main_func logs the end of the build and moves on to lint or the next job.
BuildPackage ==
    /\ pc = "build"
    /\ \E toolOk \in BOOLEAN, rmFails \in BOOLEAN :
        LET p == pkgs[j]
            ctl == content[ControlFile(p)]
            t1 == Append(trace, Event("call.fakeroot", p.name))
        IN  IF p.distro \notin {"debian", "openwrt"} THEN
                \* the archive branch reads self.archive_name, which nothing sets
                /\ trace' = trace
                /\ Crash("AttributeError")
                /\ UNCHANGED <<fs, content, links, execs, j>>
            ELSE IF ~(toolOk /\ ToolCanSucceed(p, ctl)) THEN
                \* sh raises ErrorReturnCode; rm_work_dir is not reached
                /\ trace' = t1
                /\ Crash("ErrorReturnCode")
                /\ UNCHANGED <<fs, content, links, execs, j>>
            ELSE
                LET fs1 == fs \cup {ToolOutput(p, ctl)}
                    rm == rm_work_dir(p, fs1, ~rmFails)
                IN  /\ trace' = Append(Append(t1, Event("tool.ok", p.name))
                                       \o rm.ev,
                                       Event("log.info.end", p.name))
                    /\ fs' = rm.fs
                    /\ content' = Restrict(content, rm.fs)
                    /\ links' = Restrict(links, rm.fs)
                    /\ execs' = execs \cap rm.fs
                    /\ IF opts_lint
                       THEN pc' = "lint" /\ UNCHANGED <<j, rc, exc>>
                       ELSE Advance(j, Len(pkgs))
    /\ UNCHANGED <<argv_distro, opts_distro, opts_arch, opts_lint, version,
                   protoFiles, protoLinks, hostFiles, pkgs, i>>

\* if opts.lint: p.run_lint().  Package defines deb_run_lint; the body
\* below is deb_run_lint's, reached only if the name looked up exists.
RunLint ==
    /\ pc = "lint"
    /\ \E status \in {0, 1, 2} :
        LET p == pkgs[j]
            t1 == Append(trace, Event("call.lintian", p.name))
        IN  IF "run_lint" \notin PackageMethods THEN
                /\ trace' = trace
                /\ Crash("AttributeError")
                /\ UNCHANGED j
            ELSE IF status = 0 THEN
                /\ trace' = t1
                /\ Advance(j, Len(pkgs))
            ELSE IF status = 1 THEN
                /\ trace' = Append(t1, Event("log.warning.lintian", p.name))
                /\ Advance(j, Len(pkgs))
            ELSE
                /\ trace' = t1
                /\ Crash("ErrorReturnCode")
                /\ UNCHANGED j
    /\ UNCHANGED <<argv_distro, opts_distro, opts_arch, opts_lint, version,
                   protoFiles, protoLinks, hostFiles, fs, content, links,
                   execs, pkgs, i>>

Next == Normalize \/ Validate \/ Register \/ CollectContents \/ BuildPackage
        \/ RunLint

Spec == Init /\ [][Next]_vars

\* The loop body of main_func applied on the whole input domain of the
\* constructor: any distro with any arch reaches `for pclass in packages`,
\* as when Package subclasses are constructed without the
\* valid_distro_arch screen in front of them.
InitAnyRequest ==
    /\ argv_distro \in Distros
    /\ opts_distro = NormalizeDistro(argv_distro)
    /\ opts_arch \in Arches
    /\ opts_lint \in BOOLEAN
    /\ version \in {VersionOf(c) : c \in Calvers}
    /\ protoFiles \in SUBSET ProtoPaths
    /\ protoLinks \in SUBSET ProtoLinkChoices
    /\ hostFiles \in {HookSources({"debian", "openwrt"}, h) :
                        h \in SUBSET Hooks}
    /\ fs = {}
    /\ content = <<>>
    /\ links = <<>>
    /\ execs = {}
    /\ pkgs = <<>>
    /\ pc = "register"
    /\ i = 1
    /\ j = 1
    /\ rc = 0
    /\ exc = "none"
    /\ trace = <<>>

NextAnyRequest == Register \/ CollectContents \/ BuildPackage \/ RunLint

SpecAnyRequest == InitAnyRequest /\ [][NextAnyRequest]_vars

\* A Package subclass that declares empty dependency lists.
NoDependsPackage ==
    [cls |-> "NoDependsPackage",
     name |-> "bg-nodeps",
     arches |-> <<"armhf", "amd64">>,
     distros |-> <<"debian", "openwrt">>,
     description |-> "No dependencies.",
     maintainer |-> "Brightgate Software <contact_us@brightgate.com>",
     deb_depends |-> <<>>,
     ipk_depends |-> <<>>,
     proto_sub |-> "nodeps"]

EmitClasses == {CloudPackage, AppliancePackage, NoDependsPackage}

\* The jobs the constructor hands out for the classes above.
EmitJobs(ver) ==
    {r.obj : r \in {q \in {Package_init(cls, d, a, ver) :
                              cls \in EmitClasses,
                              d \in {"debian", "openwrt"},
                              a \in DOMAIN ARCH_MAPS} : q.exc = "none"}}

\* The body of `for p in pkgs` for one constructed job of any of the
\* classes above, in an empty current directory.
InitEmit ==
    /\ opts_arch \in DOMAIN ARCH_MAPS
    /\ opts_lint \in BOOLEAN
    /\ version \in {VersionOf(c) : c \in Calvers}
    /\ \E p \in EmitJobs(version) :
          /\ p.arch = opts_arch
          /\ opts_distro = p.distro
          /\ argv_distro = p.distro
          /\ pkgs = <<p>>
    /\ protoFiles = {}
    /\ protoLinks \in SUBSET ProtoLinkChoices
    /\ hostFiles \in {HookSources(ds, h) :
          ds \in SUBSET {"debian", "openwrt"}, h \in SUBSET Hooks}
    /\ fs = {}
    /\ content = <<>>
    /\ links = <<>>
    /\ execs = {}
    /\ pc = "collect"
    /\ i = Len(packages) + 1
    /\ j = 1
    /\ rc = 0
    /\ exc = "none"
    /\ trace = <<>>

NextEmit == CollectContents \/ BuildPackage \/ RunLint

SpecEmit == InitEmit /\ [][NextEmit]_vars

----------------------------------------------------------------------------
(* Vocabulary of the properties.                                           *)

Did(op, name) == \E k \in DOMAIN trace : trace[k] = Event(op, name)

\* the operations that create or fill a work directory, or run a tool on it
WorkOps ==
    {"call.rmtree", "call.copytree", "call.makedirs", "call.open_control",
     "call.fakeroot", "call.lintian"}

Touched(name) == \E op \in WorkOps : Did(op, name)

AnyWork == \E k \in DOMAIN trace : trace[k].op \in WorkOps

\* the build tool was run for the package and exited non-zero
ToolFailed(name) == Did("call.fakeroot", name) /\ ~Did("tool.ok", name)

\* every path a work directory of some package of this run could occupy
AllWorkPaths ==
    UNION {Tree(Fmt3(cls.name, version, a)) :
            cls \in Range(packages),
            a \in DOMAIN ARCH_MAPS \cup {ARCH_MAPS[b]["ipk"] : b \in DOMAIN ARCH_MAPS}}

\* the files in the current directory that are not part of a work directory
Artifacts == fs \ AllWorkPaths

\* the request after the alias shim
Requested == NormalizeDistro(argv_distro)

Supports(cls) == InSeq(opts_arch, cls.arches)

----------------------------------------------------------------------------
(* C1 (stated as claimed): once build_package has been attempted for a job *)
(* (the build tool was invoked), the job's workDir does not exist, whether *)
(* the tool succeeded or exited non-zero.                                  *)
C1_WorkDirAbsentAfterBuild ==
    \A k \in DOMAIN pkgs :
        Did("call.fakeroot", pkgs[k].name) => pkgs[k].work_dir \notin fs

(* C2 (stated as claimed): when the build tool fails for a job, the job    *)
(* leaves no artifact, the failure is surfaced, and every job registered   *)
(* after it is still staged and has its build tool invoked.                *)
C2_SiblingsBuiltAfterFailure ==
    pc = "done" =>
        \A k \in DOMAIN pkgs :
            ToolFailed(pkgs[k].name) =>
                /\ pkgs[k].package_name \notin fs
                /\ rc # 0
                /\ \A m \in DOMAIN pkgs :
                     m > k => /\ Did("call.copytree", pkgs[m].name)
                              /\ Did("call.fakeroot", pkgs[m].name)

(* C3 (stated as claimed): if the appliance proto subtree holds a          *)
(* config-store file and the appliance spec is selected for the request,   *)
(* the pre-flight check stops the run: no work directory is created for    *)
(* any spec and the process exits non-zero.                                *)
C3_DirtyMarkerAborts ==
    ( /\ protoFiles \cap ConfigStoreFiles # {}
      /\ valid_distro_arch(Requested, opts_arch)
      /\ Supports(AppliancePackage) )
    => /\ ~AnyWork
       /\ pc = "done" => rc # 0

(* C4: the pre-flight checks of all selected specs complete before any job *)
(* is staged, and once check_proto has failed for a spec nothing is        *)
(* staged, written or built for any spec (also not for specs registered    *)
(* before it) and the process has exited non-zero.                         *)
C4_PreflightBeforeStaging ==
    /\ AnyWork => i > Len(packages)
    /\ \A c \in DOMAIN packages :
         Did("log.fatal.proto_check", packages[c].name) =>
            /\ ~AnyWork
            /\ Artifacts = {}
            /\ pc = "done"
            /\ rc # 0

\* check_proto failed for bg-appliance after bg-cloud had been registered
C4_Witness ==
    /\ pc = "done"
    /\ Did("log.fatal.proto_check", "bg-appliance")
    /\ Len(pkgs) = 1
    /\ pkgs[1].name = "bg-cloud"

(* C5: for every spec whose arches do not contain the requested            *)
(* architecture, construction is a skip: nothing is staged, written or     *)
(* built for it, the specs after it are still constructed, and the skip    *)
(* does not change the exit code (0 with zero jobs when no spec supports   *)
(* the architecture).                                                      *)
C5_UnsupportedArchSkipped ==
    /\ \A c \in DOMAIN packages :
         ~Supports(packages[c]) =>
            /\ ~Touched(packages[c].name)
            /\ ~Did("tool.ok", packages[c].name)
            /\ \A k \in DOMAIN pkgs : pkgs[k].name # packages[c].name
            /\ i > c => Did("log.info.skipping", packages[c].name)
            /\ (i > c /\ c < Len(packages) /\ (pc = "done" \/ i > c + 1)) =>
                  Did("log.debug.init", packages[c + 1].name)
    /\ (pc = "done" /\ rc # 0) =>
          \/ exc \notin {"none", "WrongArchException"}
          \/ \E c \in DOMAIN packages :
                Did("log.fatal.proto_check", packages[c].name)
    /\ ((\A c \in DOMAIN packages : ~Supports(packages[c])) /\ pc = "done") =>
          /\ rc = 0
          /\ pkgs = <<>>
          /\ ~AnyWork
          /\ Artifacts = {}

\* bg-cloud was skipped for armhf and bg-appliance was then built
C5_Witness ==
    /\ pc = "done"
    /\ opts_arch = "armhf"
    /\ Did("log.info.skipping", "bg-cloud")
    /\ Did("tool.ok", "bg-appliance")

----------------------------------------------------------------------------
\* the architecture string of a distribution, as the claims name it
ResolvedArch(distro, arch) ==
    IF distro = "openwrt" THEN ARCH_MAPS[arch]["ipk"] ELSE arch

Extension(distro) == IF distro = "openwrt" THEN ".ipk" ELSE ".deb"

BuiltJobs == {k \in DOMAIN pkgs : Did("tool.ok", pkgs[k].name)}

(* C6: every job whose build tool succeeded leaves exactly one artifact;   *)
(* it is named <name>_<version>_<distro-resolved arch><extension>, and     *)
(* the job's package_name is the name of the file the tool wrote.          *)
C6_ArtifactNamed ==
    /\ \A k \in BuiltJobs :
         /\ pkgs[k].package_name =
              Fmt3(pkgs[k].name, version,
                   ResolvedArch(opts_distro, opts_arch))
              \o Extension(opts_distro)
         /\ pkgs[k].package_name \in Artifacts
    /\ Cardinality(Artifacts) = Cardinality(BuiltJobs)

\* an openwrt job (armhf resolves to another string) was built
C6_Witness ==
    /\ pc = "done"
    /\ opts_distro = "openwrt"
    /\ BuiltJobs # {}

SupportingSpecs == {c \in DOMAIN packages : Supports(packages[c])}

(* C7 (stated as claimed): a request for archive with an architecture a    *)
(* spec supports stages and builds that spec, leaves one artifact per      *)
(* such spec and exits 0.                                                  *)
C7_ArchiveBuilds ==
    (argv_distro = "archive" /\ SupportingSpecs # {} /\ pc = "done") =>
        /\ rc = 0
        /\ \A c \in SupportingSpecs :
             /\ Did("call.copytree", packages[c].name)
             /\ Did("tool.ok", packages[c].name)
        /\ Cardinality(Artifacts) = Cardinality(SupportingSpecs)

\* the job a debian request constructs for a class
DebianJob(cls) == Package_init(cls, "debian", opts_arch, version).obj

(* C8: a run requested as raspbian is, from the alias shim on, a run       *)
(* requested as debian: opts.distro is debian, the jobs are the debian     *)
(* jobs of the specs that support the architecture, the control files      *)
(* carry the debian dependency lists, the artifacts have the debian names  *)
(* and the exit code is decided the same way.  Stated for both requests.   *)
C8_RaspbianIsDebian ==
    (argv_distro \in {"debian", "raspbian"} /\ pc # "normalize") =>
        /\ opts_distro = "debian"
        /\ \A k \in DOMAIN pkgs :
             \E c \in SupportingSpecs : pkgs[k] = DebianJob(packages[c])
        /\ (i > Len(packages) /\ opts_arch \in {"armhf", "amd64"}) =>
             {pkgs[k].name : k \in DOMAIN pkgs}
               = {packages[c].name : c \in SupportingSpecs}
        /\ \A f \in DOMAIN content :
             \/ content[f] = <<>>
             \/ \E c \in SupportingSpecs :
                  /\ Field(content[f], "Package") = packages[c].name
                  /\ Field(content[f], "Depends")
                       = Join(",", packages[c].deb_depends)
        /\ Artifacts \subseteq
             {Fmt3(packages[c].name, version, opts_arch) \o ".deb" :
                c \in SupportingSpecs}
        /\ pc = "done" =>
             (rc = 0 <=>
                /\ exc = "none"
                /\ \A c \in DOMAIN packages :
                     ~Did("log.fatal.proto_check", packages[c].name))

\* a raspbian request built the appliance package
C8_Witness ==
    /\ pc = "done"
    /\ argv_distro = "raspbian"
    /\ Did("tool.ok", "bg-appliance")
    /\ rc = 0

KnownDistros == {"debian", "openwrt", "archive", "raspbian"}

(* C10 (stated as claimed): a request that names an unrecognized           *)
(* distribution ends with a non-zero exit status.                          *)
C10_UnknownDistroIsError ==
    (argv_distro \notin KnownDistros /\ pc = "done") => rc # 0

(* C10 (amended): a request that names an unrecognized distribution is a   *)
(* no-op: it is logged at info level and the process exits 0 before any    *)
(* job is constructed; nothing is staged or built.                         *)
C10_UnknownDistroNoOp ==
    argv_distro \notin KnownDistros =>
        /\ pkgs = <<>>
        /\ i = 1
        /\ ~AnyWork
        /\ Artifacts = {}
        /\ pc \in {"normalize", "validate", "done"}
        /\ pc = "done" =>
             /\ rc = 0
             /\ exc = "none"
             /\ trace = <<Event("log.info.no_output", "none")>>

\* the run for an unknown distribution name has ended
C10_Witness ==
    /\ pc = "done"
    /\ argv_distro = "fedora"
    /\ opts_arch = "amd64"

----------------------------------------------------------------------------
\* the jobs main_func has moved past: the body of `for p in pkgs` ended
\* for them without an exception
Finished(k) == j > k

(* C11 (stated as claimed): with the lint toggle on and distro debian,     *)
(* the linter is run against every successfully built job; the artifact    *)
(* stays on disk, the jobs after it are still built and a linter status of *)
(* 1 does not change the exit code.                                        *)
C11_LintAfterEachBuild ==
    (opts_lint /\ opts_distro = "debian" /\ pc = "done") =>
        \A k \in BuiltJobs :
            /\ Did("call.lintian", pkgs[k].name)
            /\ pkgs[k].package_name \in fs
            /\ \A m \in DOMAIN pkgs :
                 m > k => Did("call.fakeroot", pkgs[m].name)
            /\ Did("log.warning.lintian", pkgs[k].name) => Finished(k)

(* C12 (stated as claimed): for an openwrt job no lint call is made even   *)
(* with the lint toggle on, and a job whose build succeeded finishes       *)
(* normally.                                                               *)
C12_NoLintOutsideDebian ==
    (opts_lint /\ opts_distro # "debian") =>
        \A k \in DOMAIN pkgs :
            /\ ~Did("call.lintian", pkgs[k].name)
            /\ (pc = "done" /\ k \in BuiltJobs) => Finished(k)

\* the dependency lists the package classes declare, joined with commas
DeclaredDepends(name, distro) ==
    IF name = "bg-cloud" /\ distro = "debian" THEN "libc6"
    ELSE IF name = "bg-appliance" /\ distro = "debian" THEN
        "bridge-utils,chrony,dhcpcd5,iproute2,iptables,iptables-persistent,"
        \o "iw,libc6,libpcap-dev,netfilter-persistent,nmap,procps,vlan,"
        \o "bg-hostapd"
    ELSE IF name = "bg-appliance" /\ distro = "openwrt" THEN
        "libgcc,libpcap,libsodium,uclibcxx,chrony,iw-full,logrotate,"
        \o "nmap-ssl,rsyslog,bg-hostapd"
    ELSE ""

(* C13: for every job whose control file was rendered, the file has at     *)
(* most one Depends field; its value is the dependency list the class      *)
(* declares for the job's distribution, joined with commas in declared     *)
(* order, and the field is absent when that list is empty.                 *)
C13_DependsField ==
    \A k \in DOMAIN pkgs :
        LET f == ControlFile(pkgs[k])
            want == DeclaredDepends(pkgs[k].name, pkgs[k].distro)
        IN  (f \in DOMAIN content
             /\ ~Did("log.error.template", pkgs[k].name)) =>
                /\ Cardinality({n \in DOMAIN content[f] :
                                   content[f][n][1] = "Depends"})
                     = IF want = "" THEN 0 ELSE 1
                /\ want # "" => Field(content[f], "Depends") = want

\* the control file of the openwrt appliance job has been written
C13_Witness ==
    /\ pc = "build"
    /\ pkgs[1].name = "bg-appliance"
    /\ pkgs[1].distro = "openwrt"
    /\ HasField(content[ControlFile(pkgs[1])], "Depends")

\* the jobs whose proto subtree has been copied into the work directory:
\* copy_tree returned and mk_work_dir was called
Staged(k) == Did("call.makedirs", pkgs[k].name)

(* C14: while the work directory of a staged job exists, every symbolic    *)
(* link of its proto subtree is in it as a symbolic link with the same     *)
(* target string, dangling and absolute links included, and the work       *)
(* directory holds no other links; the copy of a tree with links never     *)
(* fails.                                                                  *)
C14_SymlinksPreserved ==
    /\ \A k \in DOMAIN pkgs :
         (Staged(k) /\ pkgs[k].work_dir \in fs) =>
            /\ \A l \in protoLinks :
                 LET f == PathJoin(pkgs[k].work_dir, l.path)
                 IN  /\ f \in fs
                     /\ f \in DOMAIN links
                     /\ links[f] = l.target
            /\ \A f \in DOMAIN links \cap Tree(pkgs[k].work_dir) :
                 \E l \in protoLinks :
                    f = PathJoin(pkgs[k].work_dir, l.path)
    /\ DOMAIN links \subseteq fs
    /\ exc # "shutil.Error"
    /\ \A k \in DOMAIN pkgs :
         (Did("call.copytree", pkgs[k].name) /\ exc # "FileExistsError")
            => Staged(k)

\* a tree with a dangling absolute link and a relative link is staged
C14_Witness ==
    /\ pc = "build"
    /\ protoLinks = ProtoLinkChoices
    /\ PathJoin(pkgs[j].work_dir, "etc/localtime") \in DOMAIN links
    /\ links[PathJoin(pkgs[j].work_dir, "etc/localtime")]
         = "/usr/share/zoneinfo/UTC"

\* the records and calls of the body of `for p in pkgs`
JobOps ==
    WorkOps \cup {"log.info.begin", "log.info.end", "tool.ok",
                  "log.warning.rmtree", "log.warning.makedirs",
                  "log.error.template", "log.warning.lintian"}

\* the position of a class in `packages`, and of a job in pkgs, by name
ClassIndex(name) == CHOOSE c \in DOMAIN packages : packages[c].name = name

JobIndex(name) == CHOOSE k \in DOMAIN pkgs : pkgs[k].name = name

JobSteps == {n \in DOMAIN trace : trace[n].op \in JobOps}

(* C15: the jobs are in the order of `packages` (bg-cloud before           *)
(* bg-appliance); the steps of the jobs appear in the trace in job order,  *)
(* never interleaved; and a job has steps only after the job before it     *)
(* was built and cleaned up (its end was logged and its work directory     *)
(* removed, or the removal logged as failed).                              *)
C15_JobsInOrder ==
    /\ \A k, m \in DOMAIN pkgs :
         k < m => ClassIndex(pkgs[k].name) < ClassIndex(pkgs[m].name)
    /\ \A n1, n2 \in JobSteps :
         n1 < n2 => JobIndex(trace[n1].pkg) <= JobIndex(trace[n2].pkg)
    /\ \A k \in DOMAIN pkgs :
         (k > 1 /\ \E n \in JobSteps : trace[n].pkg = pkgs[k].name) =>
            /\ Did("tool.ok", pkgs[k - 1].name)
            /\ Did("log.info.end", pkgs[k - 1].name)
            /\ \/ pkgs[k - 1].work_dir \notin fs
               \/ Did("log.warning.rmtree", pkgs[k - 1].name)
    /\ (pc \in {"collect", "build", "lint"} /\ j <= Len(pkgs)) =>
         \A k \in DOMAIN pkgs :
            k > j => ~\E n \in JobSteps : trace[n].pkg = pkgs[k].name

\* bg-cloud and then bg-appliance were built in one run
C15_Witness ==
    /\ pc = "done"
    /\ rc = 0
    /\ Len(pkgs) = 2
    /\ Did("tool.ok", "bg-cloud")
    /\ Did("tool.ok", "bg-appliance")

\* the log records at warning level or above
Diagnostics ==
    {"log.fatal.proto_check", "log.error.template", "log.warning.rmtree",
     "log.warning.makedirs", "log.warning.lintian"}

\* the records of the conditions that are logged and passed over
Warnings ==
    {"log.warning.rmtree", "log.warning.makedirs", "log.warning.lintian"}

\* the conditions the claims call fatal: a dirty proto area, a failed
\* build tool, a linter status other than 0 and 1
FatalCondition ==
    \/ \E c \in DOMAIN packages :
          Did("log.fatal.proto_check", packages[c].name)
    \/ \E k \in DOMAIN pkgs : ToolFailed(pkgs[k].name)
    \/ (exc = "ErrorReturnCode"
        /\ \E k \in DOMAIN pkgs : Did("call.lintian", pkgs[k].name))

(* C16 (stated as claimed): when the run ends on a failed build tool, the  *)
(* last thing the builder wrote is a diagnostic record naming the package; *)
(* a dirty proto area ends the run non-zero after its fatal record; and    *)
(* a run in which a warning was logged ends non-zero only when a fatal     *)
(* condition occurred, so warnings leave the exit code unchanged.          *)
C16_FatalDiagnosed ==
    pc = "done" =>
        /\ \A k \in DOMAIN pkgs :
             ToolFailed(pkgs[k].name) =>
                \E n \in DOMAIN trace :
                    /\ trace[n].op \in Diagnostics
                    /\ trace[n].pkg = pkgs[k].name
                    /\ \A m \in DOMAIN trace :
                         trace[m] = Event("call.fakeroot", pkgs[k].name)
                            => m < n
        /\ \A c \in DOMAIN packages :
             Did("log.fatal.proto_check", packages[c].name) =>
                /\ rc # 0
                /\ trace[Len(trace)]
                     = Event("log.fatal.proto_check", packages[c].name)
        /\ (rc # 0 /\ \E n \in DOMAIN trace : trace[n].op \in Warnings)
             => FatalCondition

(* C17 (stated as claimed): when the removal of a leftover work directory  *)
(* fails at the start of staging, the job goes on: its tree is staged, its *)
(* control file is written and its build tool is invoked.                  *)
C17_StaleDirNotFatal ==
    pc = "done" =>
        \A k \in DOMAIN pkgs :
            ( /\ Did("log.warning.rmtree", pkgs[k].name)
              /\ ~Did("tool.ok", pkgs[k].name) )
            => /\ Staged(k)
               /\ Did("call.open_control", pkgs[k].name)
               /\ Did("call.fakeroot", pkgs[k].name)

(* C18: when rendering the control template fails the error is logged and  *)
(* the job goes on: collect_contents ends with an existing, empty control  *)
(* file and with the lifecycle scripts copied, and the build tool is       *)
(* invoked on the work directory.                                          *)
C18_RenderFailureSwallowed ==
    \A k \in DOMAIN pkgs :
        Did("log.error.template", pkgs[k].name) =>
            /\ (pc = "build" /\ j = k) \/ Did("call.fakeroot", pkgs[k].name)
            /\ exc # "TemplateError"
            /\ (pc = "build" /\ j = k) =>
                 /\ ControlFile(pkgs[k]) \in fs
                 /\ content[ControlFile(pkgs[k])] = <<>>
                 /\ \A f \in Hooks :
                      HookSource(pkgs[k].distro, pkgs[k].name, f) \in hostFiles
                        => PathJoin(pkgs[k].control_dir, f) \in fs

\* a job whose control file is empty was built and the run ended with 0
C18_Witness ==
    /\ pc = "done"
    /\ rc = 0
    /\ \E k \in DOMAIN pkgs :
          /\ Did("log.error.template", pkgs[k].name)
          /\ Did("tool.ok", pkgs[k].name)
          /\ pkgs[k].package_name \in fs

\* the positions in the trace at which op was recorded for a package
Positions(op, name) == {n \in DOMAIN trace : trace[n] = Event(op, name)}

\* the steps of a job up to the invocation of the build tool, in the order
\* the claim gives them
Lifecycle ==
    <<"log.debug.init", "log.info.pre_build_check", "log.info.begin",
      "call.copytree", "call.makedirs", "call.open_control", "call.fakeroot">>

(* C19: no step of a job's lifecycle happens twice; each step that has     *)
(* happened was preceded by all the steps before it, in order; the build   *)
(* tool is invoked on a work directory that holds the staged tree, the     *)
(* metadata subdirectory and the control file; and lint is reached only    *)
(* after the tool succeeded and the work directory was cleaned up.         *)
C19_LifecycleOrder ==
    /\ \A c \in DOMAIN packages, s \in DOMAIN Lifecycle :
         LET here == Positions(Lifecycle[s], packages[c].name)
         IN  /\ Cardinality(here) <= 1
             /\ (here # {} /\ s > 1) =>
                  \E n \in Positions(Lifecycle[s - 1], packages[c].name) :
                      \A m \in here : n < m
    /\ pc = "build" =>
         /\ Did("call.open_control", pkgs[j].name)
         /\ ~Did("call.fakeroot", pkgs[j].name)
         /\ {pkgs[j].work_dir, pkgs[j].control_dir, ControlFile(pkgs[j])}
              \subseteq fs
    /\ pc = "lint" =>
         /\ Did("tool.ok", pkgs[j].name)
         /\ Did("log.info.end", pkgs[j].name)
         /\ \/ pkgs[j].work_dir \notin fs
            \/ Did("log.warning.rmtree", pkgs[j].name)
    /\ \A k \in DOMAIN pkgs :
         \A n \in Positions("call.lintian", pkgs[k].name) :
            \E m \in Positions("log.info.end", pkgs[k].name) : m < n

\* a job went through every step, was built and cleaned up, and is about
\* to be linted
C19_Witness ==
    /\ pc = "lint"
    /\ \A s \in DOMAIN Lifecycle : Did(Lifecycle[s], pkgs[j].name)
    /\ Did("call.rmtree", pkgs[j].name)
    /\ pkgs[j].work_dir \notin fs

(* C20: when collect_contents has ended for a job, each of prerm, postinst *)
(* and conffiles is in the metadata subdirectory under its plain name      *)
(* exactly when build/debian-deb/<name>-<hook> (debian) or                 *)
(* build/openwrt-ipk/<name>-<hook> (openwrt) exists on the host; the copy  *)
(* has mode 0o755 exactly when it exists and is not conffiles.             *)
C20_HooksCopied ==
    pc = "build" =>
        \A f \in {"prerm", "postinst", "conffiles"} :
            LET p == pkgs[j]
                dir == IF p.distro = "debian"
                       THEN "build/debian-deb" ELSE "build/openwrt-ipk"
                meta == IF p.distro = "debian" THEN "DEBIAN" ELSE "CONTROL"
                src == dir \o "/" \o p.name \o "-" \o f
                dst == p.work_dir \o "/" \o meta \o "/" \o f
            IN  /\ dst \in fs <=> src \in hostFiles
                /\ dst \in execs <=> (src \in hostFiles /\ f # "conffiles")
                /\ dst \notin DOMAIN links

\* an openwrt job whose three scripts exist only in build/openwrt-ipk
C20_Witness ==
    /\ pc = "build"
    /\ pkgs[j].distro = "openwrt"
    /\ hostFiles = HookSources({"openwrt"}, Hooks)
    /\ PathJoin(pkgs[j].control_dir, "conffiles") \in fs \ execs
    /\ PathJoin(pkgs[j].control_dir, "postinst") \in execs

\* the work directory name the claims describe: spec name, the version of
\* the run and the architecture string of the distribution
WorkDirName(name, distro, arch) ==
    name \o "_" \o version \o "_" \o ResolvedArch(distro, arch)

\* the files of fs below the work directory of job k
Below(files, k) == files \cap Tree(pkgs[k].work_dir)

\* job k has not begun: main_func has not logged its begin record
NotBegun(k) == ~Did("log.info.begin", pkgs[k].name)

\* a step of the build loop leaves what is below the work directories of
\* the jobs it is not running as it was
OthersUntouched ==
    pc \in {"collect", "build", "lint"} =>
        \A k \in DOMAIN pkgs : k # j => Below(fs', k) = Below(fs, k)

(* C21: in every state the jobs of the run have pairwise different work    *)
(* directory names, each the combination of the spec name, the version of  *)
(* the run and the distro-resolved architecture; no file lies below two    *)
(* jobs' work directories; a job that has not begun has nothing below its  *)
(* work directory but what was there before the run; and no step of the    *)
(* build loop removes or creates a file below the work directory of a job  *)
(* other than the one it is running.                                       *)
C21_WorkDirsDistinct ==
    /\ [](/\ \A k \in DOMAIN pkgs :
               pkgs[k].work_dir
                 = WorkDirName(pkgs[k].name, opts_distro, opts_arch)
          /\ \A k, m \in DOMAIN pkgs :
               k # m => /\ pkgs[k].work_dir # pkgs[m].work_dir
                        /\ Tree(pkgs[k].work_dir) \cap Tree(pkgs[m].work_dir)
                             = {}
          /\ \A k \in DOMAIN pkgs :
               NotBegun(k) => Below(fs, k) \subseteq {pkgs[k].work_dir})
    /\ [][OthersUntouched]_vars

\* the second job of a run has been staged
C21_Witness ==
    /\ pc = "build"
    /\ Len(pkgs) = 2
    /\ j = 2
    /\ pkgs[2].work_dir \in fs

\* the class a job was constructed from
ClassOf(k) == packages[ClassIndex(pkgs[k].name)]

(* C22: for every request of the command line, every job main_func         *)
(* registers (and so every job that reaches staging) has the requested     *)
(* arch in its class's arches and the requested distro in its class's      *)
(* distros, with the dependency list of that distro declared; and the      *)
(* registration loop never ends on a missing architecture mapping          *)
(* (KeyError) or a missing dependency list (AttributeError).               *)
C22_StagedJobsSupported ==
    /\ \A k \in DOMAIN pkgs :
         /\ pkgs[k].arch = opts_arch
         /\ pkgs[k].distro = opts_distro
         /\ InSeq(opts_arch, ClassOf(k).arches)
         /\ InSeq(opts_distro, ClassOf(k).distros)
         /\ opts_arch \in DOMAIN ARCH_MAPS
         /\ opts_distro = "debian" => "deb_depends" \in DOMAIN ClassOf(k)
         /\ opts_distro = "openwrt" => "ipk_depends" \in DOMAIN ClassOf(k)
    /\ (pc = "done" /\ i <= Len(packages)) =>
         exc \notin {"KeyError", "AttributeError"}
    /\ ~Touched("bg-cloud") \/ opts_distro # "openwrt"

\* an openwrt request: bg-cloud was skipped and bg-appliance is staged
C22_Witness ==
    /\ pc = "build"
    /\ argv_distro = "openwrt"
    /\ Did("log.info.skipping", "bg-cloud")
    /\ pkgs[j].name = "bg-appliance"
    /\ pkgs[j].work_dir \in fs

====
